---- MODULE Spec2Model ----
(***************************************************************************)
(* ServerGroup (server/group.ts) on top of Group (data/group.ts): the      *)
(* group change log, the constructor, modify, verifyAccess and the lookup  *)
(* helpers.  Identities (UuidCiphertext bytes) are strings; a credential   *)
(* presentation is a record naming whether it is present, whether the      *)
(* zkgroup verification accepts it, and the identity it carries.           *)
(***************************************************************************)
EXTENDS Integers, Sequences, FiniteSets, TLC

VARIABLES
    groupChanges,   \* privChanges.groupChanges; <<>> while no group is constructed
    pc,             \* position of the caller: "idle", "returned", or a step of a pair / retry
    call,           \* the invocation just answered: its arguments, and the log it found
    outcome         \* what the last invocation produced

vars == <<groupChanges, pc, call, outcome>>

\* ---------------------------------------------------------------------------
\* Bounds
\* ---------------------------------------------------------------------------
MaxVersion == 1        \* no bundle is submitted that would commit a later version
MaxHistory == 2        \* the commits of a history of next-version bundles

\* ---------------------------------------------------------------------------
\* Values
\* ---------------------------------------------------------------------------
NONE == "NONE"         \* an absent (undefined) field

AccessRequired == {"UNKNOWN", "ANY", "MEMBER", "ADMINISTRATOR", "UNSATISFIABLE"}
Role == {"UNKNOWN", "DEFAULT", "ADMINISTRATOR"}

\* the callers: a primary (ACI) and a secondary (PNI) identity each
Actors == { [aci |-> "a", pni |-> "pa"],
            [aci |-> "b", pni |-> "pb"] }

\* a credential presentation: absent, rejected by the verifier, or verified and
\* carrying an identity and a profile key ciphertext
NoPresentation == [present |-> FALSE, valid |-> FALSE, uuid |-> NONE, profileKey |-> NONE]
BadPresentation == [present |-> TRUE, valid |-> FALSE, uuid |-> NONE, profileKey |-> NONE]
GoodPresentation(u) == [present |-> TRUE, valid |-> TRUE, uuid |-> u, profileKey |-> "key-" \o u]

\* Date.now() as seen by a call
Clock == {"t"}

\* the value of a lookup that found nothing (undefined)
NoMember == [userId |-> NONE, role |-> NONE, profileKey |-> NONE]

\* ---------------------------------------------------------------------------
\* Sequence helpers
\* ---------------------------------------------------------------------------
RECURSIVE FoldLeft(_, _, _)
FoldLeft(Op(_, _), acc, s) ==
    IF s = <<>> THEN acc ELSE FoldLeft(Op, Op(acc, Head(s)), Tail(s))

\* Array.prototype.find: index of the first entry satisfying Test, 0 if none
RECURSIVE FindFrom(_, _, _)
FindFrom(Test(_), s, i) ==
    IF i > Len(s) THEN 0
    ELSE IF Test(s[i]) THEN i
    ELSE FindFrom(Test, s, i + 1)

Find(Test(_), s) == FindFrom(Test, s, 1)

\* Array.prototype.slice(since) for an integer argument
Slice(s, since) ==
    LET n == Len(s)
        from == IF since < 0 THEN (IF n + since < 0 THEN 0 ELSE n + since)
                ELSE (IF since > n THEN n ELSE since)
    IN  SubSeq(s, from + 1, n)

\* ---------------------------------------------------------------------------
\* Group (data/group.ts)
\* ---------------------------------------------------------------------------
\* Group.state: the state of the last change
State(changes) == changes[Len(changes)].groupState

\* getChangesSince leaving out the change at index since
GetChangesSince_AfterSince(changes, since) == Slice(changes, since + 1)

\* Group.getChangesSince
GetChangesSince(changes, since) == Slice(changes, since)

\* Group.getMember: position in the committed members of the first entry with
\* that userId, 0 when there is none
GetMember(changes, userId) ==
    Find(LAMBDA member : member.userId = userId, State(changes).members)

\* Group.getPendingMember: the same scan over membersPendingProfileKey
GetPendingMember(changes, userId) ==
    Find(LAMBDA entry : entry.member.userId = userId,
         State(changes).membersPendingProfileKey)

\* verifyAccess without the self-modification bypass
VerifyAccess_NoBypass(member, access, affectedUserId) ==
    CASE access = "ANY" -> TRUE
      [] access = "MEMBER" -> member # NoMember
      [] access = "ADMINISTRATOR" -> member.role = "ADMINISTRATOR"
      [] access = "UNSATISFIABLE" -> FALSE
      [] access = "UNKNOWN" -> FALSE

\* verifyAccess whose MEMBER case lets every actor through
VerifyAccess_MemberForAll(member, access, affectedUserId) ==
    IF member.userId # NONE /\ affectedUserId # NONE /\ member.userId = affectedUserId
    THEN TRUE
    ELSE CASE access = "ANY" -> TRUE
           [] access = "MEMBER" -> TRUE
           [] access = "ADMINISTRATOR" -> member.role = "ADMINISTRATOR"
           [] access = "UNSATISFIABLE" -> FALSE
           [] access = "UNKNOWN" -> FALSE

\* verifyAccess letting administrators through an UNSATISFIABLE level
VerifyAccess_UnsatisfiableForAdmins(member, access, affectedUserId) ==
    IF member.userId # NONE /\ affectedUserId # NONE /\ member.userId = affectedUserId
    THEN TRUE
    ELSE CASE access = "ANY" -> TRUE
           [] access = "MEMBER" -> member # NoMember
           [] access = "ADMINISTRATOR" -> member.role = "ADMINISTRATOR"
           [] access = "UNSATISFIABLE" -> member.role = "ADMINISTRATOR"
           [] access = "UNKNOWN" -> FALSE

\* ---------------------------------------------------------------------------
\* ServerGroup.verifyAccess: TRUE when the check returns, FALSE when it throws.
\* member is NoMember (undefined) or the acting member record; affectedUserId
\* is NONE when the argument is not passed.
\* ---------------------------------------------------------------------------
VerifyAccess(member, access, affectedUserId) ==
    IF member.userId # NONE /\ affectedUserId # NONE /\ member.userId = affectedUserId
    THEN TRUE
    ELSE CASE access = "ANY" -> TRUE
           [] access = "MEMBER" -> member # NoMember
           [] access = "ADMINISTRATOR" -> member.role = "ADMINISTRATOR"
           [] access = "UNSATISFIABLE" -> FALSE
           [] access = "UNKNOWN" -> FALSE

\* ---------------------------------------------------------------------------
\* ServerGroup.modify
\* ---------------------------------------------------------------------------
\* The working copy (newState, appliedActions.sourceUuid, changeEpoch).  An
\* entry of a working list is tagged with the position it has in the committed
\* list (ref), 0 for an object created by this call: the filters of modify
\* compare object references, not identities.
Tagged(s) == [i \in 1..Len(s) |-> [ref |-> i, val |-> s[i]]]
Untagged(s) == [i \in 1..Len(s) |-> s[i].val]
Fresh(v) == [ref |-> 0, val |-> v]
WithoutRef(s, r) == SelectSeq(s, LAMBDA entry : entry.ref # r)

NewState(changes, actions) ==
    [ ok |-> TRUE,
      title |-> State(changes).title,
      members |-> Tagged(State(changes).members),
      pending |-> Tagged(State(changes).membersPendingProfileKey),
      changeEpoch |-> 1,
      sourceUuid |-> NONE ]

Thrown(w) == [w EXCEPT !.ok = FALSE]

\* the member record behind a lookup result
AuthMember(changes, sourceACI) ==
    LET i == GetMember(changes, sourceACI)
    IN  IF i = 0 THEN NoMember ELSE State(changes).members[i]

\* if (actions.modifyTitle) { ... }
ApplyModifyTitle(changes, sourceACI, w, modifyTitle) ==
    IF modifyTitle = NONE THEN w
    ELSE IF ~VerifyAccess(AuthMember(changes, sourceACI),
                          State(changes).accessControl.attributes, NONE)
         THEN Thrown(w)
         ELSE [w EXCEPT !.title = modifyTitle]

\* a delete that refuses to remove the last member
ApplyDeleteMember_KeepsLastMember(changes, sourceACI, w, deletedUserId) ==
    IF ~w.ok THEN w
    ELSE IF deletedUserId = NONE THEN Thrown(w)
    ELSE IF ~VerifyAccess(AuthMember(changes, sourceACI),
                          State(changes).accessControl.members, deletedUserId)
         THEN Thrown(w)
    ELSE LET member == GetMember(changes, deletedUserId)
         IN  IF member = 0 THEN Thrown(w)
             ELSE IF Len(w.members) <= 1 THEN Thrown(w)
             ELSE [w EXCEPT !.members = WithoutRef(w.members, member)]

\* one iteration of the deleteMembers loop
ApplyDeleteMember(changes, sourceACI, w, deletedUserId) ==
    IF ~w.ok THEN w
    ELSE IF deletedUserId = NONE THEN Thrown(w)
    ELSE IF ~VerifyAccess(AuthMember(changes, sourceACI),
                          State(changes).accessControl.members, deletedUserId)
         THEN Thrown(w)
    ELSE LET member == GetMember(changes, deletedUserId)
         IN  IF member = 0 THEN Thrown(w)
             ELSE [w EXCEPT !.members = WithoutRef(w.members, member)]

\* one iteration of the addPendingMembers loop
ApplyAddPendingMember(changes, sourceACI, timestamp, w, added) ==
    IF ~w.ok THEN w
    ELSE IF added.userId = NONE THEN Thrown(w)
    ELSE IF added.role \in {NONE, "UNKNOWN"} THEN Thrown(w)
    ELSE IF ~VerifyAccess(AuthMember(changes, sourceACI),
                          State(changes).accessControl.members, NONE)
         THEN Thrown(w)
    ELSE LET newPendingMember ==
                 [ member |-> [userId |-> added.userId, role |-> added.role],
                   addedByUserId |-> sourceACI,
                   timestamp |-> timestamp ]
         IN  [w EXCEPT !.pending = Append(w.pending, Fresh(newPendingMember))]

\* a delete of a pending member that does not compare the identity with the
\* caller's sourceACI and sourcePNI
ApplyDeletePendingMember_AnyActor(changes, sourceACI, sourcePNI, w, deletedUserId) ==
    IF ~w.ok THEN w
    ELSE IF deletedUserId = NONE THEN Thrown(w)
    ELSE LET pendingMember == GetPendingMember(changes, deletedUserId)
         IN  IF pendingMember = 0 THEN Thrown(w)
             ELSE [w EXCEPT !.pending = WithoutRef(w.pending, pendingMember)]

\* one iteration of the deletePendingMembers loop
ApplyDeletePendingMember(changes, sourceACI, sourcePNI, w, deletedUserId) ==
    IF ~w.ok THEN w
    ELSE IF deletedUserId = NONE THEN Thrown(w)
    ELSE IF ~(deletedUserId = sourceACI \/ deletedUserId = sourcePNI) THEN Thrown(w)
    ELSE LET pendingMember == GetPendingMember(changes, deletedUserId)
         IN  IF pendingMember = 0 THEN Thrown(w)
             ELSE [w EXCEPT !.pending = WithoutRef(w.pending, pendingMember)]

\* a promotion that does not look the identity up in the members
ApplyPromotePendingMember_NoActiveCheck(changes, sourceACI, w, presentation) ==
    IF ~w.ok THEN w
    ELSE IF ~presentation.present THEN Thrown(w)
    ELSE IF ~presentation.valid THEN Thrown(w)
    ELSE IF presentation.uuid # sourceACI THEN Thrown(w)
    ELSE LET pendingMember == GetPendingMember(changes, presentation.uuid)
         IN  IF pendingMember = 0 THEN Thrown(w)
             ELSE [w EXCEPT
                     !.pending = WithoutRef(w.pending, pendingMember),
                     !.members = Append(w.members,
                         Fresh([ role |-> "DEFAULT",
                                 userId |-> presentation.uuid,
                                 profileKey |-> presentation.profileKey ]))]

\* a promotion that does not compare the presentation's identity with sourceACI
ApplyPromotePendingMember_AnyActor(changes, sourceACI, w, presentation) ==
    IF ~w.ok THEN w
    ELSE IF ~presentation.present THEN Thrown(w)
    ELSE IF ~presentation.valid THEN Thrown(w)
    ELSE LET pendingMember == GetPendingMember(changes, presentation.uuid)
         IN  IF pendingMember = 0 THEN Thrown(w)
             ELSE IF GetMember(changes, presentation.uuid) # 0 THEN Thrown(w)
             ELSE [w EXCEPT
                     !.pending = WithoutRef(w.pending, pendingMember),
                     !.members = Append(w.members,
                         Fresh([ role |-> "DEFAULT",
                                 userId |-> presentation.uuid,
                                 profileKey |-> presentation.profileKey ]))]

\* a promotion that admits the member with the role of its pending entry
ApplyPromotePendingMember_PendingRole(changes, sourceACI, w, presentation) ==
    IF ~w.ok THEN w
    ELSE IF ~presentation.present THEN Thrown(w)
    ELSE IF ~presentation.valid THEN Thrown(w)
    ELSE IF presentation.uuid # sourceACI THEN Thrown(w)
    ELSE LET pendingMember == GetPendingMember(changes, presentation.uuid)
         IN  IF pendingMember = 0 THEN Thrown(w)
             ELSE IF GetMember(changes, presentation.uuid) # 0 THEN Thrown(w)
             ELSE [w EXCEPT
                     !.pending = WithoutRef(w.pending, pendingMember),
                     !.members = Append(w.members,
                         Fresh([ role |-> State(changes).membersPendingProfileKey[pendingMember].member.role,
                                 userId |-> presentation.uuid,
                                 profileKey |-> presentation.profileKey ]))]

\* one iteration of the promotePendingMembers loop
ApplyPromotePendingMember(changes, sourceACI, w, presentation) ==
    IF ~w.ok THEN w
    ELSE IF ~presentation.present THEN Thrown(w)
    ELSE IF ~presentation.valid THEN Thrown(w)
    ELSE IF presentation.uuid # sourceACI THEN Thrown(w)
    ELSE LET pendingMember == GetPendingMember(changes, presentation.uuid)
         IN  IF pendingMember = 0 THEN Thrown(w)
             ELSE IF GetMember(changes, presentation.uuid) # 0 THEN Thrown(w)
             ELSE [w EXCEPT
                     !.pending = WithoutRef(w.pending, pendingMember),
                     !.members = Append(w.members,
                         Fresh([ role |-> "DEFAULT",
                                 userId |-> presentation.uuid,
                                 profileKey |-> presentation.profileKey ]))]

\* one iteration of the promoteMembersPendingPniAciProfileKey loop
ApplyPromotePNIMember(changes, sourceACI, sourcePNI, w, presentation) ==
    IF ~w.ok THEN w
    ELSE IF ~presentation.present THEN Thrown(w)
    ELSE IF ~presentation.valid THEN Thrown(w)
    ELSE LET aci == presentation.uuid
             pni == sourcePNI
         IN  IF aci # sourceACI THEN Thrown(w)
             ELSE LET pendingMember == GetPendingMember(changes, pni)
                  IN  IF pendingMember = 0 THEN Thrown(w)
                      ELSE IF GetMember(changes, aci) # 0 THEN Thrown(w)
                      ELSE [w EXCEPT
                              !.pending = WithoutRef(w.pending, pendingMember),
                              !.members = Append(w.members,
                                  Fresh([ role |-> "DEFAULT",
                                          userId |-> aci,
                                          profileKey |-> presentation.profileKey ])),
                              !.changeEpoch = IF w.changeEpoch > 5 THEN w.changeEpoch ELSE 5,
                              !.sourceUuid = sourcePNI]

\* the sub-actions of a bundle applied to the working copy, in the order of
\* the code
ApplyActions(changes, sourceACI, sourcePNI, timestamp, actions) ==
    LET w0 == [NewState(changes, actions) EXCEPT !.sourceUuid = sourceACI]
        w1 == ApplyModifyTitle(changes, sourceACI, w0, actions.modifyTitle)
        w2 == FoldLeft(LAMBDA w, e : ApplyDeleteMember(changes, sourceACI, w, e),
                       w1, actions.deleteMembers)
        w3 == FoldLeft(LAMBDA w, e : ApplyAddPendingMember(changes, sourceACI, timestamp, w, e),
                       w2, actions.addPendingMembers)
        w4 == FoldLeft(LAMBDA w, e : ApplyDeletePendingMember(changes, sourceACI, sourcePNI, w, e),
                       w3, actions.deletePendingMembers)
        w5 == FoldLeft(LAMBDA w, e : ApplyPromotePendingMember(changes, sourceACI, w, e),
                       w4, actions.promotePendingMembers)
        w6 == FoldLeft(LAMBDA w, e : ApplyPromotePNIMember(changes, sourceACI, sourcePNI, w, e),
                       w5, actions.promoteMembersPendingPniAciProfileKey)
    IN  w6

\* a version check that only rejects bundles from the future
VersionConflict_FutureOnly(changes, actions) == actions.version > State(changes).version + 1

\* a version check that only rejects stale bundles
VersionConflict_StaleOnly(changes, actions) == actions.version < State(changes).version + 1

\* a version check against the version the group was constructed with
VersionConflict_AgainstFirst(changes, actions) ==
    actions.version # changes[1].groupState.version + 1

\* actions.version !== oldVersion + 1
VersionConflict(changes, actions) == actions.version # State(changes).version + 1

\* a commit that keeps the version of the snapshot it copied
Committed_KeepsVersion(changes, actions, w) ==
    [ groupChange |-> [changeEpoch |-> w.changeEpoch, sourceUuid |-> w.sourceUuid],
      groupState |-> [ State(changes) EXCEPT
                         !.title = w.title,
                         !.members = Untagged(w.members),
                         !.membersPendingProfileKey = Untagged(w.pending) ] ]

\* a commit whose new state is built from the working copy alone, without the
\* spread of the committed state: access control and public key are lost
Committed_WithoutSpread(changes, actions, w) ==
    [ groupChange |-> [changeEpoch |-> w.changeEpoch, sourceUuid |-> w.sourceUuid],
      groupState |-> [ State(changes) EXCEPT
                         !.version = actions.version,
                         !.title = w.title,
                         !.accessControl = [present |-> FALSE, attributes |-> NONE,
                                            members |-> NONE, addFromInviteLink |-> NONE],
                         !.publicKey = NONE,
                         !.members = Untagged(w.members),
                         !.membersPendingProfileKey = Untagged(w.pending) ] ]

\* the change pushed on a commit
Committed(changes, actions, w) ==
    [ groupChange |-> [changeEpoch |-> w.changeEpoch, sourceUuid |-> w.sourceUuid],
      groupState |-> [ State(changes) EXCEPT
                         !.version = actions.version,
                         !.title = w.title,
                         !.members = Untagged(w.members),
                         !.membersPendingProfileKey = Untagged(w.pending) ] ]

\* modify working on the committed snapshot itself instead of a copy: the
\* title assignment then shows in the log even when nothing is committed
Modify_NoCopy(changes, sourceACI, sourcePNI, timestamp, actions) ==
    IF actions.version = 0
    THEN [result |-> "failed", changes |-> changes]
    ELSE LET w == ApplyActions(changes, sourceACI, sourcePNI, timestamp, actions)
             touched == [changes EXCEPT ![Len(changes)].groupState.title = w.title]
         IN  IF ~w.ok THEN [result |-> "failed", changes |-> touched]
             ELSE IF VersionConflict(changes, actions)
                  THEN [result |-> "conflict", changes |-> touched]
                  ELSE [result |-> "applied",
                        changes |-> Append(changes, Committed(changes, actions, w))]

\* modify as a function of the committed log and the arguments: what the call
\* produces ("failed" for a thrown error) and the log it leaves
Modify(changes, sourceACI, sourcePNI, timestamp, actions) ==
    IF actions.version = 0
    THEN [result |-> "failed", changes |-> changes]
    ELSE LET w == ApplyActions(changes, sourceACI, sourcePNI, timestamp, actions)
         IN  IF ~w.ok THEN [result |-> "failed", changes |-> changes]
             ELSE IF VersionConflict(changes, actions)
                  THEN [result |-> "conflict", changes |-> changes]
                  ELSE [result |-> "applied",
                        changes |-> Append(changes, Committed(changes, actions, w))]

\* ---------------------------------------------------------------------------
\* ServerGroup.constructor and unrollMember
\* ---------------------------------------------------------------------------
\* unrollMember: the asserts and the verification it runs on one member
UnrollOk(member) ==
    /\ member.role # NONE
    /\ member.presentation.present
    /\ member.presentation.valid

UnrollMember(member) ==
    [ role |-> member.role,
      userId |-> member.presentation.uuid,
      profileKey |-> member.presentation.profileKey ]

\* a constructor that does not look at the version of the initial state
ConstructorOk_AnyVersion(state) ==
    /\ state.publicKey # NONE
    /\ state.accessControl.present
    /\ state.accessControl.attributes # NONE
    /\ state.accessControl.members # NONE
    /\ state.accessControl.addFromInviteLink # NONE
    /\ Len(state.members) > 0

\* the asserts of the constructor
ConstructorOk(state) ==
    /\ state.publicKey # NONE
    /\ state.version = 0
    /\ state.accessControl.present
    /\ state.accessControl.attributes # NONE
    /\ state.accessControl.members # NONE
    /\ state.accessControl.addFromInviteLink # NONE
    /\ Len(state.members) > 0

\* the change log a construction leaves: empty when it throws
Constructor(state) ==
    IF ~ConstructorOk(state) THEN <<>>
    ELSE IF \E i \in 1..Len(state.members) : ~UnrollOk(state.members[i]) THEN <<>>
    ELSE << [ groupChange |-> [changeEpoch |-> 0, sourceUuid |-> NONE],
              groupState |-> [ state EXCEPT
                  !.members = [i \in 1..Len(state.members) |->
                                  UnrollMember(state.members[i])] ] ] >>

\* ---------------------------------------------------------------------------
\* Inputs
\* ---------------------------------------------------------------------------
Level(l) == [present |-> TRUE, attributes |-> l, members |-> l, addFromInviteLink |-> l]

\* access-control configurations handed to the constructor
AccessControls ==
    {Level(l) : l \in AccessRequired}
    \cup { [Level("ANY") EXCEPT !.members = "ADMINISTRATOR"],
           [Level("ADMINISTRATOR") EXCEPT !.attributes = NONE],
           [Level("ADMINISTRATOR") EXCEPT !.members = NONE],
           [Level("ADMINISTRATOR") EXCEPT !.addFromInviteLink = NONE],
           [Level(NONE) EXCEPT !.present = FALSE] }

Admin(u) == [role |-> "ADMINISTRATOR", presentation |-> GoodPresentation(u)]
Default(u) == [role |-> "DEFAULT", presentation |-> GoodPresentation(u)]

\* member lists handed to the constructor
InitialMembers ==
    { <<>>,
      <<Admin("a")>>,
      <<Admin("a"), Default("b")>>,
      <<Admin("a"), [role |-> "DEFAULT", presentation |-> BadPresentation]>>,
      <<[role |-> NONE, presentation |-> GoodPresentation("a")]>>,
      <<[role |-> "ADMINISTRATOR", presentation |-> NoPresentation]>> }

Pending(u, r, by) ==
    [member |-> [userId |-> u, role |-> r], addedByUserId |-> by, timestamp |-> "t"]

\* pending lists handed to the constructor
InitialPending == { <<>>, <<Pending("b", "ADMINISTRATOR", "a"), Pending("pb", "DEFAULT", "a")>> }

InitialStates ==
    [ version : {0, 1},
      title : {"t0"},
      publicKey : {"pub", NONE},
      accessControl : AccessControls,
      members : InitialMembers,
      membersPendingProfileKey : InitialPending ]

\* all sequences over S of length n
RECURSIVE SeqsOfLen(_, _)
SeqsOfLen(S, n) ==
    IF n = 0 THEN {<<>>}
    ELSE {Append(s, x) : s \in SeqsOfLen(S, n - 1), x \in S}

Titles == {"t1"}
DeletedMembers == {"a", "b"}
AddedMembers == { [userId |-> "b", role |-> "ADMINISTRATOR"],
                  [userId |-> "pb", role |-> "DEFAULT"] }
DeletedPendingMembers == {"b", "pb"}
BundlePresentations == {BadPresentation, GoodPresentation("b")}

\* how many sub-actions of each kind a bundle carries: a title change alone,
\* or at most two membership sub-actions
Counts ==
    { c \in [title : 0..1, del : 0..2, add : 0..2, delp : 0..2, prom : 0..2, pni : 0..2] :
        /\ c.title + c.del + c.add + c.delp + c.prom + c.pni <= 2
        /\ c.title = 1 => c.del + c.add + c.delp + c.prom + c.pni = 0 }

\* the action bundles submitted to modify; version 0 stands for a bundle
\* without a version, tried with at most one sub-action
Bundles ==
    UNION { [ version : IF c.title + c.del + c.add + c.delp + c.prom + c.pni <= 1
                        THEN 0..(MaxVersion + 1) ELSE 1..(MaxVersion + 1),
              modifyTitle : IF c.title = 0 THEN {NONE} ELSE Titles,
              deleteMembers : SeqsOfLen(DeletedMembers, c.del),
              addPendingMembers : SeqsOfLen(AddedMembers, c.add),
              deletePendingMembers : SeqsOfLen(DeletedPendingMembers, c.delp),
              promotePendingMembers : SeqsOfLen(BundlePresentations, c.prom),
              promoteMembersPendingPniAciProfileKey : SeqsOfLen(BundlePresentations, c.pni) ]
            : c \in Counts }

\* ---------------------------------------------------------------------------
\* The state machine: one caller at a time constructs the group, calls modify
\* or getChangesSince, and takes the answer
\* ---------------------------------------------------------------------------
NoCall == [op |-> "none"]
NoOutcome == [result |-> "none"]

Init ==
    /\ groupChanges = <<>>
    /\ pc = "idle"
    /\ call = NoCall
    /\ outcome = NoOutcome

\* new ServerGroup({ state })
Construct(state) ==
    /\ pc = "idle"
    /\ groupChanges = <<>>
    /\ groupChanges' = Constructor(state)
    /\ call' = [op |-> "construct", state |-> state]
    /\ outcome' = [result |-> IF Constructor(state) = <<>> THEN "failed" ELSE "constructed"]
    /\ pc' = "returned"

\* the versions a caller submits against committed version v: none (0), the
\* stale v, the next v + 1 while it is within MaxVersion, and the future v + 2
SubmittedVersions(v) ==
    {0, v, v + 2} \cup (IF v + 1 <= MaxVersion THEN {v + 1} ELSE {})

\* group.modify(sourceACI, sourcePNI, actions)
ModifyCall(actor, timestamp, actions) ==
    /\ pc = "idle"
    /\ groupChanges # <<>>
    /\ actions.version \in SubmittedVersions(State(groupChanges).version)
    /\ LET r == Modify(groupChanges, actor.aci, actor.pni, timestamp, actions)
       IN  /\ groupChanges' = r.changes
           /\ outcome' = [result |-> r.result]
    /\ call' = [op |-> "modify", actor |-> actor, actions |-> actions,
                before |-> groupChanges]
    /\ pc' = "returned"

\* group.getChangesSince(since)
GetChangesSinceCall(since) ==
    /\ pc = "idle"
    /\ groupChanges # <<>>
    /\ call' = [op |-> "getChangesSince", since |-> since, before |-> groupChanges]
    /\ outcome' = [result |-> "changes", groupChanges |-> GetChangesSince(groupChanges, since)]
    /\ pc' = "returned"
    /\ UNCHANGED groupChanges

\* the caller takes the answer
Return ==
    /\ pc = "returned"
    /\ pc' = "idle"
    /\ call' = NoCall
    /\ outcome' = NoOutcome
    /\ UNCHANGED groupChanges

Next ==
    \/ pc = "idle" /\ \E state \in InitialStates : Construct(state)
    \/ pc = "idle" /\ \E actor \in Actors, timestamp \in Clock, actions \in Bundles :
          ModifyCall(actor, timestamp, actions)
    \/ pc = "idle" /\ \E since \in 0..(MaxVersion + 2) : GetChangesSinceCall(since)
    \/ Return

Spec == Init /\ [][Next]_vars

\* ---------------------------------------------------------------------------
\* Properties
\* ---------------------------------------------------------------------------
Constructed == groupChanges # <<>>
Returned(op) == pc = "returned" /\ call.op = op

\* the sub-actions of a bundle, counted
SubActionCount(actions) ==
    (IF actions.modifyTitle = NONE THEN 0 ELSE 1)
    + Len(actions.deleteMembers) + Len(actions.addPendingMembers)
    + Len(actions.deletePendingMembers) + Len(actions.promotePendingMembers)
    + Len(actions.promoteMembersPendingPniAciProfileKey)

\* the identities in the members / pending members of a state
MemberIds(state) == {state.members[i].userId : i \in 1..Len(state.members)}
PendingIds(state) ==
    {state.membersPendingProfileKey[i].member.userId :
        i \in 1..Len(state.membersPendingProfileKey)}

\* C1: a modify call that does not return Applied (it throws, or returns
\* Conflict) leaves the change log exactly as it was: same length, same states.
C1_NotAppliedLeavesLog ==
    (Returned("modify") /\ outcome.result # "applied") => groupChanges = call.before

\* C1 witness: a call that failed on its second sub-action after the first,
\* a delete, had passed and changed the working copy
C1_Witness ==
    /\ Returned("modify")
    /\ outcome.result = "failed"
    /\ call.actions.version # 0
    /\ Len(call.actions.deleteMembers) = 1
    /\ SubActionCount(call.actions) = 2
    /\ LET w == ApplyDeleteMember(call.before, call.actor.aci,
                                  NewState(call.before, call.actions),
                                  call.actions.deleteMembers[1])
       IN  w.ok /\ Len(w.members) < Len(State(call.before).members)

\* C2 as stated: a bundle whose version is not the committed version + 1
\* always gets Conflict and leaves the log as it was.
C2_Original ==
    (Returned("modify") /\ call.actions.version # State(call.before).version + 1)
      => (outcome.result = "conflict" /\ groupChanges = call.before)

\* C2 amended: such a bundle is never applied and leaves the log as it was; it
\* gets Conflict or fails, and it gets Conflict when it has a version and
\* carries no sub-action.
C2_NeverApplied ==
    (Returned("modify") /\ call.actions.version # State(call.before).version + 1)
      => /\ outcome.result \in {"conflict", "failed"}
         /\ groupChanges = call.before
         /\ (call.actions.version # 0 /\ SubActionCount(call.actions) = 0)
               => outcome.result = "conflict"

\* C2 witness: a bundle for a version that is not next, with sub-actions that
\* all pass, answered with Conflict
C2_Witness ==
    /\ Returned("modify")
    /\ outcome.result = "conflict"
    /\ SubActionCount(call.actions) > 0
    /\ call.actions.version > State(groupChanges).version + 1

\* C3: in every committed state of a group constructed with disjoint members
\* and pending members, no identity is both a member and a pending member.
C3_Disjoint ==
    (Constructed /\ MemberIds(groupChanges[1].groupState)
                      \cap PendingIds(groupChanges[1].groupState) = {})
      => \A i \in 1..Len(groupChanges) :
            MemberIds(groupChanges[i].groupState)
              \cap PendingIds(groupChanges[i].groupState) = {}

\* the snapshot a modify call found, and the member behind its sourceACI
Before == State(call.before)
Acting == AuthMember(call.before, call.actor.aci)
Deleted == call.actions.deleteMembers
Added == call.actions.addPendingMembers

\* C5: the state stored at index i of the change log (counted from 0) has
\* version i, and an applied modify raises the current version by exactly 1.
C5_VersionIsIndex ==
    /\ \A i \in 1..Len(groupChanges) : groupChanges[i].groupState.version = i - 1
    /\ (Returned("modify") /\ outcome.result = "applied")
          => State(groupChanges).version = Before.version + 1

\* C5 witness: a modify was applied and the log holds versions 0 and 1
C5_Witness ==
    /\ Returned("modify")
    /\ outcome.result = "applied"
    /\ Len(groupChanges) >= 2

\* C6: an applied modify appends exactly one entry to the change log, and
\* getChangesSince(n) returns the entries from index n onward, in order:
\* length - n of them, none when n >= length.
C6_AppendAndSuffix ==
    /\ (Returned("modify") /\ outcome.result = "applied")
          => /\ Len(groupChanges) = Len(call.before) + 1
             /\ SubSeq(groupChanges, 1, Len(call.before)) = call.before
    /\ Returned("getChangesSince")
          => LET r == outcome.groupChanges
                 n == call.since
                 len == Len(groupChanges)
             IN  /\ Len(r) = IF n >= len THEN 0 ELSE len - n
                 /\ \A k \in 1..Len(r) : r[k] = groupChanges[n + k]

\* C6 witness: after a commit, getChangesSince(1) returns the one new entry
C6_Witness ==
    /\ Returned("getChangesSince")
    /\ Len(groupChanges) = 2
    /\ call.since = 1
    /\ outcome.groupChanges = <<groupChanges[2]>>

\* C7: whatever the members access level, a bundle in which a current member
\* deletes only their own identity passes the access check and is applied;
\* under level ADMINISTRATOR a bundle in which a DEFAULT member deletes another
\* member fails.
C7_SelfDeleteBypass ==
    Returned("modify") =>
      /\ ( /\ Acting # NoMember
           /\ Len(Deleted) >= 1
           /\ SubActionCount(call.actions) = Len(Deleted)
           /\ \A i \in 1..Len(Deleted) : Deleted[i] = call.actor.aci
           /\ call.actions.version = Before.version + 1 )
            => outcome.result = "applied"
      /\ ( /\ Before.accessControl.members = "ADMINISTRATOR"
           /\ Acting # NoMember
           /\ Acting.role = "DEFAULT"
           /\ \E i \in 1..Len(Deleted) :
                 Deleted[i] # call.actor.aci /\ Deleted[i] \in MemberIds(Before) )
            => outcome.result = "failed"

\* C7 witness: a DEFAULT member deleted themself from a group whose members
\* level is UNSATISFIABLE
C7_Witness ==
    /\ Returned("modify")
    /\ outcome.result = "applied"
    /\ Before.accessControl.members = "UNSATISFIABLE"
    /\ Acting # NoMember
    /\ Acting.role = "DEFAULT"
    /\ Deleted = <<call.actor.aci>>
    /\ call.actor.aci \notin MemberIds(State(groupChanges))

\* C8 as stated: with members level UNSATISFIABLE every bundle carrying a
\* delete-members or add-pending-members sub-action fails, and no call changes
\* the members or the pending members through them.
C8_Original ==
    (Returned("modify") /\ Before.accessControl.members = "UNSATISFIABLE"
       /\ (Len(Deleted) > 0 \/ Len(Added) > 0))
      => (outcome.result = "failed" /\ groupChanges = call.before)

\* C8 amended: with members level UNSATISFIABLE every bundle fails that carries
\* an add-pending-members sub-action, or a delete-members sub-action that does
\* not name the acting member's own identity; a member leaves only by deleting
\* themself and no pending member is ever added.
C8_UnsatisfiableButSelf ==
    (Returned("modify") /\ Before.accessControl.members = "UNSATISFIABLE")
      => /\ ( \/ Len(Added) > 0
              \/ \E i \in 1..Len(Deleted) :
                    Acting = NoMember \/ Deleted[i] # call.actor.aci )
               => outcome.result = "failed"
         /\ MemberIds(Before) \ MemberIds(State(groupChanges)) \subseteq {call.actor.aci}
         /\ Len(State(groupChanges).membersPendingProfileKey)
               <= Len(Before.membersPendingProfileKey)

\* C8 witness: an administrator's bundle deleting another member of an
\* UNSATISFIABLE group failed
C8_Witness ==
    /\ Returned("modify")
    /\ outcome.result = "failed"
    /\ Before.accessControl.members = "UNSATISFIABLE"
    /\ Acting.role = "ADMINISTRATOR"
    /\ call.actions.version = Before.version + 1
    /\ SubActionCount(call.actions) = 1
    /\ Len(Deleted) = 1
    /\ Deleted[1] # call.actor.aci
    /\ Deleted[1] \in MemberIds(Before)

\* C9: a bundle fails, and nothing is committed, when it carries a promotion
\* whose verified identity is a member of the committed state, or whose key
\* (that identity for promote-pending, the caller's secondary identity for the
\* cross-identity promotion) has no pending entry in the committed state.
C9_PromotionNeedsPendingNonMember ==
    Returned("modify") =>
      LET prom == call.actions.promotePendingMembers
          pni == call.actions.promoteMembersPendingPniAciProfileKey
      IN  ( \/ \E i \in 1..Len(prom) :
                  /\ prom[i].valid
                  /\ \/ prom[i].uuid \in MemberIds(Before)
                     \/ prom[i].uuid \notin PendingIds(Before)
            \/ \E i \in 1..Len(pni) :
                  /\ pni[i].valid
                  /\ \/ pni[i].uuid \in MemberIds(Before)
                     \/ call.actor.pni \notin PendingIds(Before) )
            => (outcome.result = "failed" /\ groupChanges = call.before)

\* C9 witness: the promotion of an identity that is pending and already a
\* member failed
C9_Witness ==
    /\ Returned("modify")
    /\ outcome.result = "failed"
    /\ call.actions.version = Before.version + 1
    /\ call.actions.promotePendingMembers = <<GoodPresentation(call.actor.aci)>>
    /\ SubActionCount(call.actions) = 1
    /\ call.actor.aci \in MemberIds(Before)
    /\ call.actor.aci \in PendingIds(Before)

\* C10: in every committed state no two entries of members have the same
\* userId.
C10_UniqueMembers ==
    \A n \in 1..Len(groupChanges) :
       LET members == groupChanges[n].groupState.members
       IN  \A i, j \in 1..Len(members) :
              i # j => members[i].userId # members[j].userId

\* the promotions and the pending deletions carried by the bundle of a call
Promoted == call.actions.promotePendingMembers
PromotedPNI == call.actions.promoteMembersPendingPniAciProfileKey
DeletedPending == call.actions.deletePendingMembers

\* C11: an identity X that is a member after a modify call and was not one
\* before was admitted by an applied call whose sourceACI is X and whose bundle
\* carries a verified presentation of X, in promotePendingMembers with X
\* pending in the committed state, or in promoteMembersPendingPniAciProfileKey
\* with the caller's sourcePNI pending in the committed state.
C11_OnlySelfPromotionAdmits ==
    Returned("modify") =>
      \A X \in MemberIds(State(groupChanges)) \ MemberIds(Before) :
         /\ outcome.result = "applied"
         /\ X = call.actor.aci
         /\ \/ /\ X \in PendingIds(Before)
               /\ \E i \in 1..Len(Promoted) :
                     Promoted[i].valid /\ Promoted[i].uuid = X
            \/ /\ call.actor.pni \in PendingIds(Before)
               /\ \E i \in 1..Len(PromotedPNI) :
                     PromotedPNI[i].valid /\ PromotedPNI[i].uuid = X

\* C11 witness: a caller was admitted by a cross-identity promotion alone
C11_Witness ==
    /\ Returned("modify")
    /\ outcome.result = "applied"
    /\ call.actor.aci \in MemberIds(State(groupChanges)) \ MemberIds(Before)
    /\ Len(PromotedPNI) = 1
    /\ SubActionCount(call.actions) = 1

\* C12 as stated: construction fails and leaves no change log exactly for the
\* initial states with a version other than 0, no public key, an access level
\* missing, no members, or a member whose presentation does not verify; every
\* other initial state yields a log of one entry at version 0 with the
\* verified members.
C12_Original ==
    Returned("construct") =>
      LET state == call.state
          listed ==
             \/ state.version # 0
             \/ state.publicKey = NONE
             \/ ~state.accessControl.present
             \/ state.accessControl.attributes = NONE
             \/ state.accessControl.members = NONE
             \/ state.accessControl.addFromInviteLink = NONE
             \/ Len(state.members) = 0
             \/ \E i \in 1..Len(state.members) : ~state.members[i].presentation.valid
      IN  /\ listed => (outcome.result = "failed" /\ groupChanges = <<>>)
          /\ ~listed =>
                /\ outcome.result = "constructed"
                /\ Len(groupChanges) = 1
                /\ groupChanges[1].groupState.version = 0
                /\ groupChanges[1].groupState.members =
                      [i \in 1..Len(state.members) |->
                          [ role |-> state.members[i].role,
                            userId |-> state.members[i].presentation.uuid,
                            profileKey |-> state.members[i].presentation.profileKey ]]

\* C12 amended: construction also fails for an initial state with a member
\* that has no role or no presentation; with that case added to the list, the
\* listed states fail and leave no change log, and every other initial state
\* yields a log of one entry at version 0 with the verified members.
C12_ConstructionChecks ==
    Returned("construct") =>
      LET state == call.state
          refused ==
             \/ state.version # 0
             \/ state.publicKey = NONE
             \/ ~state.accessControl.present
             \/ state.accessControl.attributes = NONE
             \/ state.accessControl.members = NONE
             \/ state.accessControl.addFromInviteLink = NONE
             \/ Len(state.members) = 0
             \/ \E i \in 1..Len(state.members) :
                   \/ state.members[i].role = NONE
                   \/ ~state.members[i].presentation.present
                   \/ ~state.members[i].presentation.valid
      IN  /\ refused => (outcome.result = "failed" /\ groupChanges = <<>>)
          /\ ~refused =>
                /\ outcome.result = "constructed"
                /\ Len(groupChanges) = 1
                /\ groupChanges[1].groupState.version = 0
                /\ groupChanges[1].groupState.members =
                      [i \in 1..Len(state.members) |->
                          [ role |-> state.members[i].role,
                            userId |-> state.members[i].presentation.uuid,
                            profileKey |-> state.members[i].presentation.profileKey ]]

\* C12 witness: a construction failed for nothing but a member whose
\* presentation the verifier rejects
C12_Witness ==
    /\ Returned("construct")
    /\ outcome.result = "failed"
    /\ groupChanges = <<>>
    /\ ConstructorOk(call.state)
    /\ \E i \in 1..Len(call.state.members) :
          /\ call.state.members[i].presentation.present
          /\ ~call.state.members[i].presentation.valid
    /\ \A i \in 1..Len(call.state.members) : call.state.members[i].role # NONE

\* C13: in a group at version 0 whose only member is an administrator and
\* whose members level is ADMINISTRATOR, the administrator's bundle
\* {version 1, deleteMembers [own identity]} is applied and the state
\* committed at version 1 has no member.
C13_LastAdministratorLeaves ==
    ( /\ Returned("modify")
      /\ Before.version = 0
      /\ Len(Before.members) = 1
      /\ Acting.role = "ADMINISTRATOR"
      /\ Before.accessControl.members = "ADMINISTRATOR"
      /\ call.actions.version = 1
      /\ Deleted = <<call.actor.aci>>
      /\ SubActionCount(call.actions) = 1 )
      => /\ outcome.result = "applied"
         /\ State(groupChanges).version = 1
         /\ State(groupChanges).members = <<>>

\* C13 witness: the only administrator deleted themself and the group at
\* version 1 is empty
C13_Witness ==
    /\ Returned("modify")
    /\ outcome.result = "applied"
    /\ Before.version = 0
    /\ Len(Before.members) = 1
    /\ Acting.role = "ADMINISTRATOR"
    /\ Before.accessControl.members = "ADMINISTRATOR"
    /\ Deleted = <<call.actor.aci>>
    /\ SubActionCount(call.actions) = 1
    /\ Len(groupChanges) = 2
    /\ State(groupChanges).members = <<>>

\* C14: the lookups of a later sub-action see what earlier sub-actions of the
\* same bundle did: a bundle deleting the same member twice fails, a bundle
\* promoting the same identity twice fails, and a bundle that adds the caller
\* as pending and then promotes the caller is applied.
C14_LaterSubActionsSeeEarlier ==
    Returned("modify") =>
      /\ (Len(Deleted) = 2 /\ Deleted[1] = Deleted[2]) => outcome.result = "failed"
      /\ (Len(Promoted) = 2 /\ Promoted[1] = Promoted[2]) => outcome.result = "failed"
      /\ ( /\ call.actions.version = Before.version + 1
           /\ SubActionCount(call.actions) = 2
           /\ Len(Added) = 1
           /\ Added[1].userId = call.actor.aci
           /\ Promoted = <<GoodPresentation(call.actor.aci)>>
           /\ call.actor.aci \notin MemberIds(Before)
           /\ Before.accessControl.members = "ANY" )
            => outcome.result = "applied"

\* C15: away from the self-target bypass the level and the acting member
\* decide: a bundle for the next version with one sub-action, a title change,
\* an added pending member or the deletion of another member, is applied
\* exactly when the level of that sub-action lets the acting member through
\* (ANY: everyone; MEMBER: members; ADMINISTRATOR: members with that role;
\* UNSATISFIABLE, UNKNOWN: no one), and a refused bundle changes nothing.
C15_LevelAndActorDecide ==
    ( /\ Returned("modify")
      /\ call.actions.version = Before.version + 1
      /\ SubActionCount(call.actions) = 1 )
      => LET allowed(level) ==
                 CASE level = "ANY" -> TRUE
                   [] level = "MEMBER" -> call.actor.aci \in MemberIds(Before)
                   [] level = "ADMINISTRATOR" ->
                        \E i \in 1..Len(Before.members) :
                           /\ Before.members[i].userId = call.actor.aci
                           /\ Before.members[i].role = "ADMINISTRATOR"
                   [] level = "UNSATISFIABLE" -> FALSE
                   [] level = "UNKNOWN" -> FALSE
             decides(level) ==
                 /\ outcome.result = (IF allowed(level) THEN "applied" ELSE "failed")
                 /\ ~allowed(level) => groupChanges = call.before
         IN  /\ call.actions.modifyTitle # NONE
                  => decides(Before.accessControl.attributes)
             /\ Len(Added) = 1
                  => decides(Before.accessControl.members)
             /\ ( /\ Len(Deleted) = 1
                  /\ Deleted[1] # call.actor.aci
                  /\ Deleted[1] \in MemberIds(Before) )
                  => decides(Before.accessControl.members)

\* C15 witness: a title change by a caller who is no member was refused under
\* level MEMBER
C15_Witness ==
    /\ Returned("modify")
    /\ outcome.result = "failed"
    /\ call.actions.version = Before.version + 1
    /\ SubActionCount(call.actions) = 1
    /\ call.actions.modifyTitle # NONE
    /\ Before.accessControl.attributes = "MEMBER"
    /\ call.actor.aci \notin MemberIds(Before)

\* C16: a bundle fails, and nothing is committed, when it carries a
\* delete-pending sub-action naming an identity that is neither the caller's
\* sourceACI nor sourcePNI, or one with no pending entry in the committed
\* state; the pending entries a bundle without promotions removes belong to
\* the caller's two identities and are named by its delete-pending sub-actions.
C16_OnlyOwnPendingEntry ==
    Returned("modify") =>
      /\ ( \E i \in 1..Len(DeletedPending) :
              \/ DeletedPending[i] \notin {call.actor.aci, call.actor.pni}
              \/ DeletedPending[i] \notin PendingIds(Before) )
            => (outcome.result = "failed" /\ groupChanges = call.before)
      /\ (Len(Promoted) = 0 /\ Len(PromotedPNI) = 0)
            => PendingIds(Before) \ PendingIds(State(groupChanges))
                 \subseteq ( {call.actor.aci, call.actor.pni}
                             \cap {DeletedPending[i] : i \in 1..Len(DeletedPending)} )

\* C16 witness: an administrator's bundle deleting the pending entry of
\* another identity failed
C16_Witness ==
    /\ Returned("modify")
    /\ outcome.result = "failed"
    /\ Acting.role = "ADMINISTRATOR"
    /\ Before.accessControl.members = "ADMINISTRATOR"
    /\ call.actions.version = Before.version + 1
    /\ SubActionCount(call.actions) = 1
    /\ Len(DeletedPending) = 1
    /\ DeletedPending[1] \in PendingIds(Before)
    /\ DeletedPending[1] \notin {call.actor.aci, call.actor.pni}

\* C19: every entry of the change log has the access control (attributes,
\* members, addFromInviteLink) and the public key of the entry at version 0.
C19_AccessControlAndKeyFrozen ==
    \A i \in 1..Len(groupChanges) :
       /\ groupChanges[i].groupState.accessControl = groupChanges[1].groupState.accessControl
       /\ groupChanges[i].groupState.publicKey = groupChanges[1].groupState.publicKey

\* C19 witness: a title change was applied
C19_Witness ==
    /\ Returned("modify")
    /\ outcome.result = "applied"
    /\ Len(groupChanges) = 2
    /\ State(groupChanges).title # Before.title

\* the identities holding role ADMINISTRATOR in a state
AdministratorIds(state) ==
    {state.members[i].userId :
        i \in {j \in 1..Len(state.members) : state.members[j].role = "ADMINISTRATOR"}}

\* C20: the administrators of a committed state are administrators of every
\* earlier state of the log, back to version 0, and a member admitted by a
\* modify call has role DEFAULT whatever role its pending entry named.
C20_AdministratorsNeverGrow ==
    /\ \A i \in 1..Len(groupChanges) : \A j \in i..Len(groupChanges) :
          AdministratorIds(groupChanges[j].groupState)
             \subseteq AdministratorIds(groupChanges[i].groupState)
    /\ Returned("modify") =>
          \A k \in 1..Len(State(groupChanges).members) :
             State(groupChanges).members[k].userId \notin MemberIds(Before)
                => State(groupChanges).members[k].role = "DEFAULT"

\* C20 witness: an identity whose pending entry named role ADMINISTRATOR was
\* promoted and is a DEFAULT member
C20_Witness ==
    /\ Returned("modify")
    /\ outcome.result = "applied"
    /\ \E k \in 1..Len(Before.membersPendingProfileKey) :
          /\ Before.membersPendingProfileKey[k].member.userId = call.actor.aci
          /\ Before.membersPendingProfileKey[k].member.role = "ADMINISTRATOR"
    /\ call.actor.aci \notin MemberIds(Before)
    /\ \E k \in 1..Len(State(groupChanges).members) :
          /\ State(groupChanges).members[k].userId = call.actor.aci
          /\ State(groupChanges).members[k].role = "DEFAULT"

\* ---------------------------------------------------------------------------
\* Two callers against one version: both prepare a bundle for version v + 1
\* while the group is at version v, and the two modify calls then run one
\* after the other (modify is synchronous, section 5 of the design)
\* ---------------------------------------------------------------------------
\* the bundles of the two callers: at most one sub-action each
PairBundles == {actions \in Bundles : SubActionCount(actions) <= 1}
PairRequests == [actor : Actors, actions : PairBundles]

\* both callers have read version v and hold their bundles
SubmitPair(first, second) ==
    /\ pc = "idle"
    /\ groupChanges # <<>>
    /\ first.actions.version = State(groupChanges).version + 1
    /\ second.actions.version = State(groupChanges).version + 1
    /\ first.actions.version <= MaxVersion
    /\ call' = [op |-> "pair", first |-> first, second |-> second, before |-> groupChanges]
    /\ outcome' = [result |-> "none"]
    /\ pc' = "first"
    /\ UNCHANGED groupChanges

\* group.modify for the caller that gets in first
ServeFirst ==
    /\ pc = "first"
    /\ LET r == Modify(groupChanges, call.first.actor.aci, call.first.actor.pni,
                       "t", call.first.actions)
       IN  /\ groupChanges' = r.changes
           /\ outcome' = [result |-> "first", first |-> r.result]
    /\ pc' = "second"
    /\ UNCHANGED call

\* group.modify for the other caller, with the bundle it prepared
ServeSecond ==
    /\ pc = "second"
    /\ LET r == Modify(groupChanges, call.second.actor.aci, call.second.actor.pni,
                       "t", call.second.actions)
       IN  /\ groupChanges' = r.changes
           /\ outcome' = [result |-> "pair", first |-> outcome.first, second |-> r.result]
    /\ pc' = "returned"
    /\ UNCHANGED call

NextPair ==
    \/ pc = "idle" /\ \E state \in InitialStates : Construct(state)
    \/ pc = "idle" /\ \E first \in PairRequests, second \in PairRequests :
          SubmitPair(first, second)
    \/ ServeFirst
    \/ ServeSecond
    \/ Return

SpecPair == Init /\ [][NextPair]_vars

\* C4 as stated: of two calls for the same version v + 1 run one after the
\* other, exactly one commits, the group reaches v + 1 with one new entry, and
\* the other call returns Conflict.
C4_Original ==
    Returned("pair") =>
      /\ \/ outcome.first = "applied" /\ outcome.second = "conflict"
         \/ outcome.first = "conflict" /\ outcome.second = "applied"
      /\ Len(groupChanges) = Len(call.before) + 1
      /\ State(groupChanges).version = Before.version + 1

\* C4 amended: at most one of the two calls commits.  The first call commits
\* unless it fails; when it commits, the group reaches v + 1 with one new
\* entry and the second call is not applied: it returns Conflict or fails, and
\* returns Conflict when it carries no sub-action.  The log grows by the
\* number of applied calls.
C4_AtMostOneCommits ==
    Returned("pair") =>
      /\ ~(outcome.first = "applied" /\ outcome.second = "applied")
      /\ outcome.first \in {"applied", "failed"}
      /\ outcome.first = "applied"
            => /\ outcome.second \in {"conflict", "failed"}
               /\ SubActionCount(call.second.actions) = 0 => outcome.second = "conflict"
      /\ outcome.first = "failed" => outcome.second \in {"applied", "failed"}
      /\ Len(groupChanges) = Len(call.before)
            + (IF "applied" \in {outcome.first, outcome.second} THEN 1 ELSE 0)
      /\ "applied" \in {outcome.first, outcome.second}
            => State(groupChanges).version = Before.version + 1

\* C4 witness: both bundles would have been applied alone; the first was
\* applied and the second got Conflict
C4_Witness ==
    /\ Returned("pair")
    /\ outcome.first = "applied"
    /\ outcome.second = "conflict"
    /\ SubActionCount(call.first.actions) = 1
    /\ SubActionCount(call.second.actions) = 1
    /\ call.first.actor # call.second.actor

\* ---------------------------------------------------------------------------
\* Histories: a group constructed without pending members, and callers that
\* each read the committed version and submit a bundle of add-pending, delete
\* and delete-pending sub-actions for the next one
\* ---------------------------------------------------------------------------
HistoryStates ==
    [ version : {0},
      title : {"t0"},
      publicKey : {"pub"},
      accessControl : {Level("ANY"), Level("ADMINISTRATOR")},
      members : {<<Admin("a")>>, <<Admin("a"), Default("b")>>},
      membersPendingProfileKey : {<<>>} ]

HistoryBundles ==
    { actions \in Bundles :
        /\ actions.version = 1
        /\ SubActionCount(actions) >= 1
        /\ actions.modifyTitle = NONE
        /\ actions.promotePendingMembers = <<>>
        /\ actions.promoteMembersPendingPniAciProfileKey = <<>> }

\* group.modify with the bundle stamped with the committed version + 1
ModifyNext(actor, timestamp, actions) ==
    /\ pc = "idle"
    /\ groupChanges # <<>>
    /\ State(groupChanges).version < MaxHistory
    /\ LET next == [actions EXCEPT !.version = State(groupChanges).version + 1]
           r == Modify(groupChanges, actor.aci, actor.pni, timestamp, next)
       IN  /\ groupChanges' = r.changes
           /\ outcome' = [result |-> r.result]
           /\ call' = [op |-> "modify", actor |-> actor, actions |-> next,
                       before |-> groupChanges]
    /\ pc' = "returned"

NextHistory ==
    \/ pc = "idle" /\ \E state \in HistoryStates : Construct(state)
    \/ pc = "idle" /\ \E actor \in Actors, timestamp \in Clock, actions \in HistoryBundles :
          ModifyNext(actor, timestamp, actions)
    \/ Return

SpecHistory == Init /\ [][NextHistory]_vars

\* C17: after an applied bundle with a delete-members sub-action for X and no
\* promotion of X, no member of the new committed state has identity X; after
\* an applied bundle with a delete-pending-members sub-action for X and no
\* add-pending sub-action for X, no pending member of the new state has
\* identity X.
C17_DeletedIsGone ==
    (Returned("modify") /\ outcome.result = "applied") =>
      /\ \A i \in 1..Len(Deleted) :
            (\A k \in 1..Len(Promoted) : Promoted[k].uuid # Deleted[i])
              /\ (\A k \in 1..Len(PromotedPNI) : PromotedPNI[k].uuid # Deleted[i])
              => Deleted[i] \notin MemberIds(State(groupChanges))
      /\ \A i \in 1..Len(DeletedPending) :
            (\A k \in 1..Len(Added) : Added[k].userId # DeletedPending[i])
              => DeletedPending[i] \notin PendingIds(State(groupChanges))

\* ---------------------------------------------------------------------------
\* Retrying callers: a caller whose bundle got Conflict reads the committed
\* version, stamps the same sub-actions with version + 1 and calls modify
\* again, while other callers commit bundles of their own in between
\* ---------------------------------------------------------------------------
\* the sub-actions of a caller: at most one
RetryBundles == {actions \in Bundles : actions.version = 1 /\ SubActionCount(actions) <= 1}

\* group.modify with a bundle for a version that is not the next one: the
\* committed version (stale) or the one after next
SubmitConflicting(actor, timestamp, actions) ==
    /\ pc = "idle"
    /\ groupChanges # <<>>
    /\ State(groupChanges).version < MaxVersion
    /\ \E version \in {State(groupChanges).version, State(groupChanges).version + 2} :
          LET stamped == [actions EXCEPT !.version = version]
              r == Modify(groupChanges, actor.aci, actor.pni, timestamp, stamped)
          IN  /\ groupChanges' = r.changes
              /\ outcome' = [result |-> r.result]
              /\ call' = [op |-> "retry", actor |-> actor, actions |-> stamped,
                          before |-> groupChanges, first |-> groupChanges]
              /\ pc' = IF r.result = "conflict" THEN "conflict" ELSE "returned"

\* the caller reads group.state.version and stamps its bundle with version + 1
ReadVersion ==
    /\ pc = "conflict"
    /\ call' = [call EXCEPT !.actions.version = State(groupChanges).version + 1]
    /\ pc' = "read"
    /\ UNCHANGED <<groupChanges, outcome>>

\* group.modify by another caller, applied, while the first one is retrying
OtherCommit(actor, timestamp, actions) ==
    /\ pc \in {"conflict", "read"}
    /\ State(groupChanges).version < MaxVersion
    /\ LET next == [actions EXCEPT !.version = State(groupChanges).version + 1]
           r == Modify(groupChanges, actor.aci, actor.pni, timestamp, next)
       IN  /\ r.result = "applied"
           /\ groupChanges' = r.changes
    /\ UNCHANGED <<pc, call, outcome>>

\* group.modify with the restamped bundle
Resubmit ==
    /\ pc = "read"
    /\ \E timestamp \in Clock :
          LET r == Modify(groupChanges, call.actor.aci, call.actor.pni, timestamp,
                          call.actions)
          IN  /\ groupChanges' = r.changes
              /\ outcome' = [result |-> r.result]
              /\ pc' = IF r.result = "conflict" THEN "conflict" ELSE "returned"
    /\ call' = [call EXCEPT !.before = groupChanges]

NextRetry ==
    \/ pc = "idle" /\ \E state \in HistoryStates : Construct(state)
    \/ pc = "idle" /\ \E actor \in Actors, timestamp \in Clock, actions \in RetryBundles :
          SubmitConflicting(actor, timestamp, actions)
    \/ ReadVersion
    \/ \E actor \in Actors, timestamp \in Clock, actions \in RetryBundles :
          OtherCommit(actor, timestamp, actions)
    \/ Resubmit
    \/ Return

\* modify is synchronous and the conflicted caller keeps retrying: its read
\* and its next call are taken
SpecRetry == Init /\ [][NextRetry]_vars /\ WF_vars(ReadVersion) /\ WF_vars(Resubmit)

\* the caller holds a Conflict
Conflicted == pc = "conflict"

\* some bundle for the next version would be applied to the committed state
CanCommit ==
    \E actor \in Actors, timestamp \in Clock, actions \in RetryBundles :
       Modify(groupChanges, actor.aci, actor.pni, timestamp,
              [actions EXCEPT !.version = State(groupChanges).version + 1]).result = "applied"

\* the retried sub-actions pass every check against the committed state
StillValid ==
    ApplyActions(groupChanges, call.actor.aci, call.actor.pni, "t", call.actions).ok

\* the retry was applied
RetryApplied == pc = "returned" /\ call.op = "retry" /\ outcome.result = "applied"

\* C18: a caller that got Conflict and keeps resubmitting the same
\* sub-actions with the committed version + 1 is eventually answered Applied,
\* unless the sub-actions stop being valid against the committed state; and
\* while a caller holds a Conflict some bundle for the next version can be
\* committed.
C18_RetryEventuallyApplied ==
    /\ [](Conflicted => CanCommit)
    /\ Conflicted ~> (RetryApplied \/ (call.op = "retry" /\ ~StillValid))

\* C18 witness: the retry was applied after a Conflict and a commit by
\* another caller in between
C18_Witness ==
    /\ RetryApplied
    /\ Len(call.before) > Len(call.first)
    /\ SubActionCount(call.actions) = 1

====
